---- MODULE Spec2Model ----
(***************************************************************************)
(* Model of make_db.py: the metadata record (DBMetadata), the update run   *)
(* (download_cdc_db, make_db) and the folder resolver (get_db_folder).     *)
(*                                                                         *)
(* Strings are modelled by what the code does with them:                   *)
(*  - a "%Y-%m-%d" date string is the number of its day (0 = 1970-01-01);  *)
(*    a datetime is a record [date, time]; strptime of a date string gives *)
(*    midnight of that day, strftime("%Y-%m-%d") and .date() drop the time.*)
(*  - host, filename and url are sequences of tokens; the token "/" is the *)
(*    character the code splits on, the token "trimmed.tfa" is the text the*)
(*    code compares with and replaces; the other tokens are texts that hold*)
(*    neither "/" nor any part of "trimmed.tfa".                           *)
(***************************************************************************)
EXTENDS Integers, Sequences, FiniteSets, TLC

\* ---- bounds ----
MaxDate == 3
MaxTime == 2
MaxRuns == 3
MaxNameLen == 3
MaxCalls == 2

Dates == 0..MaxDate
Times == 0..MaxTime
DateTimes == [date : Dates, time : Times]

VARIABLES
    metaFile,               \* db_metadata.json on disk: <<>> when absent, <<record>> when present
    fastaExists,            \* emm.fna exists in the db folder
    blastdb,                \* index artifacts copied into the db folder
    pc,                     \* position of the running function
    metad,                  \* DBMetadata.metad
    uploaded_to_server_on,  \* DBMetadata.uploaded_to_server_on (a datetime)
    url,                    \* download_cdc_db: url
    updated_on,             \* download_cdc_db: updated_on
    today,                  \* the calendar day of datetime.datetime.today()
    modified_time,          \* download_cdc_db: modified_time
    decision,               \* outcome of db.needs_updating in this run
    made,                   \* make_db was invoked in this run
    raised,                 \* exception that left the running function
    log,                    \* levels of the records logged by this run
    runs,                   \* number of runs started
    fileAtStart,            \* db_metadata.json as the run found it
    last,                   \* the previous run: observed date and how it ended
    outcome,                \* how this run ended
    result,                 \* value returned by a direct call of needs_updating
    calls,                  \* number of direct update_info calls
    environ,                \* os.environ.get("EMM_DB"): <<>> or <<folder>>
    probe,                  \* what writing the marker file does in the probed folder
    home_state,             \* what mkdir of ~/emm_db does
    db_folder               \* get_db_folder: db_folder

runVars == <<metaFile, fastaExists, blastdb, pc, metad, uploaded_to_server_on, url,
             updated_on, today, modified_time, decision, made, raised, log, runs,
             fileAtStart, last, outcome>>
callVars == <<result, calls>>
folderVars == <<environ, probe, home_state, db_folder>>
vars == <<runVars, callVars, folderVars>>

\* ---- strings ----
NoFile == <<>>
Slash == "/"
Trimmed == "trimmed.tfa"
Https == <<"https:", Slash, Slash>>
DefaultHost == <<"ftp.cdc.gov">>
DefaultFilename == <<Slash, "pub", Slash, "all", Trimmed>>
EpochDate == 0

\* datetime.datetime.strptime(s, "%Y-%m-%d")
strptime(s) == [date |-> s, time |-> 0]

\* f"{dt:%Y-%m-%d}" and dt.strftime("%Y-%m-%d")
strftime(dt) == dt.date

\* dt.date()
date(dt) == dt.date

\* url.split("/")[-1]
LastComponent(s) ==
    LET cuts == {i \in 1..Len(s) : s[i] = Slash}
        from == IF cuts = {} THEN 1 ELSE (CHOOSE i \in cuts : \A j \in cuts : j <= i) + 1
    IN  SubSeq(s, from, Len(s))

\* url.replace("trimmed.tfa", "alltrimmed.tfa")
RECURSIVE Replace(_)
Replace(s) ==
    IF s = <<>> THEN <<>>
    ELSE IF Head(s) = Trimmed THEN <<"all", Trimmed>> \o Replace(Tail(s))
    ELSE <<Head(s)>> \o Replace(Tail(s))

\* s.endswith(suffix)
EndsWith(s, suffix) ==
    /\ Len(s) >= Len(suffix)
    /\ SubSeq(s, Len(s) - Len(suffix) + 1, Len(s)) = suffix

\* BuildUrl with a suffix test (url.endswith) for the test of the last component
BuildUrl_suffix(m) ==
    LET u == Https \o m["host"] \o m["filename"]
    IN  IF EndsWith(u, <<Trimmed>>) THEN Replace(u) ELSE u

\* download_cdc_db, url construction with the trimmed.tfa rewrite
BuildUrl(m) ==
    LET u == Https \o m["host"] \o m["filename"]
    IN  IF LastComponent(u) = <<Trimmed>> THEN Replace(u) ELSE u

\* ---- DBMetadata ----
DefaultMetad(day) ==
    [updated_on |-> day, host |-> DefaultHost, filename |-> DefaultFilename,
     uploaded_to_server_on |-> EpochDate]

\* DBMetadata.__init__: the record read from the file, or the defaults
LoadMetad(file, day) == IF file # NoFile THEN file[1] ELSE DefaultMetad(day)

\* needs_updating with >= for > : equal dates ask for a rebuild
needs_updating_ge(self_uploaded, new_date) == date(new_date) >= date(self_uploaded)

\* needs_updating with # for > : any other date asks for a rebuild
needs_updating_ne(self_uploaded, new_date) == date(new_date) # date(self_uploaded)

\* needs_updating comparing the datetimes, not their dates
needs_updating_dt(self_uploaded, new_date) ==
    \/ new_date.date > self_uploaded.date
    \/ new_date.date = self_uploaded.date /\ new_date.time > self_uploaded.time

\* DBMetadata.needs_updating
needs_updating(self_uploaded, new_date) == date(new_date) > date(self_uploaded)

\* DBMetadata.update_info: an assignment into a dict
update_info(m, key, value) ==
    [k \in DOMAIN m \cup {key} |-> IF k = key THEN value ELSE m[k]]

\* DBMetadata.update_metadata_file
update_metadata_file(m) == <<m>>

\* ---- values of the variables a specification does not use ----
NoDateTime == [date |-> -1, time |-> 0]
NoLast == [observed |-> -1, outcome |-> "none"]

CallVarsIdle == result = FALSE /\ calls = 0
RunHistoryIdle ==
    /\ fastaExists = FALSE
    /\ blastdb = FALSE
    /\ updated_on = 0
    /\ today = 0
    /\ decision = "none"
    /\ made = FALSE
    /\ raised = "none"
    /\ log = {}
    /\ runs = 0
    /\ last = NoLast
    /\ outcome = "none"
FolderVarsIdle ==
    /\ environ = <<>>
    /\ probe = "ok"
    /\ home_state = "absent"
    /\ db_folder = <<>>

\* metadata files a run can find in the db folder
InitFiles ==
    {NoFile} \cup
    {<<[updated_on |-> 0, host |-> DefaultHost, filename |-> f, uploaded_to_server_on |-> d]>> :
        f \in {DefaultFilename, <<Slash, "pub", Slash, Trimmed>>}, d \in Dates}

\* ---- download_cdc_db, one run after another on the same db folder ----
Init ==
    /\ metaFile \in InitFiles
    /\ fastaExists \in BOOLEAN
    /\ blastdb = FALSE
    /\ pc = "idle"
    /\ metad = DefaultMetad(0)
    /\ uploaded_to_server_on = strptime(EpochDate)
    /\ url = <<>>
    /\ updated_on = 0
    /\ today = 0
    /\ modified_time = NoDateTime
    /\ decision = "none"
    /\ made = FALSE
    /\ raised = "none"
    /\ log = {}
    /\ runs = 0
    /\ fileAtStart = metaFile
    /\ last = NoLast
    /\ outcome = "none"
    /\ CallVarsIdle
    /\ FolderVarsIdle

\* lines 103-113: DBMetadata(db_metadata), url, updated_on
StartRun ==
    /\ pc = "idle"
    /\ runs < MaxRuns
    /\ \E day \in Dates :
        /\ day >= today
        /\ today' = day
        /\ updated_on' = strftime([date |-> day, time |-> 0])
        /\ metad' = LoadMetad(metaFile, strftime([date |-> day, time |-> 0]))
    /\ uploaded_to_server_on' = strptime(metad'["uploaded_to_server_on"])
    /\ url' = BuildUrl(metad')
    /\ fileAtStart' = metaFile
    /\ last' = IF runs = 0 THEN NoLast
               ELSE [observed |-> modified_time.date, outcome |-> outcome]
    /\ modified_time' = NoDateTime
    /\ decision' = "none"
    /\ made' = FALSE
    /\ raised' = "none"
    /\ log' = {}
    /\ outcome' = "running"
    /\ runs' = runs + 1
    /\ pc' = "probe"
    /\ UNCHANGED <<metaFile, fastaExists, blastdb, callVars, folderVars>>

\* line 114: get_upload_datetime(url) returns the Last-Modified time
ProbeOk ==
    /\ pc = "probe"
    /\ \E dt \in DateTimes : modified_time' = dt
    /\ pc' = "fetch"
    /\ UNCHANGED <<metaFile, fastaExists, blastdb, metad, uploaded_to_server_on, url,
                   updated_on, today, decision, made, raised, log, runs, fileAtStart,
                   last, outcome, callVars, folderVars>>

\* line 114: urlopen fails, or the header is absent or malformed
ProbeFail ==
    /\ pc = "probe"
    /\ raised' = "ProbeError"
    /\ outcome' = "probe_failed"
    /\ pc' = "idle"
    /\ UNCHANGED <<metaFile, fastaExists, blastdb, metad, uploaded_to_server_on, url,
                   updated_on, today, modified_time, decision, made, log, runs,
                   fileAtStart, last, callVars, folderVars>>

\* line 116: urlretrieve(url, db_fasta) returns
FetchOk ==
    /\ pc = "fetch"
    /\ fastaExists' = TRUE
    /\ pc' = "decide"
    /\ UNCHANGED <<metaFile, blastdb, metad, uploaded_to_server_on, url, updated_on,
                   today, modified_time, decision, made, raised, log, runs, fileAtStart,
                   last, outcome, callVars, folderVars>>

\* line 116: urlretrieve raises, before or after it opened db_fasta for writing
FetchFail ==
    /\ pc = "fetch"
    /\ fastaExists' \in {fastaExists, TRUE}
    /\ raised' = "URLError"
    /\ outcome' = "fetch_failed"
    /\ pc' = "idle"
    /\ UNCHANGED <<metaFile, blastdb, metad, uploaded_to_server_on, url, updated_on,
                   today, modified_time, decision, made, log, runs, fileAtStart, last,
                   callVars, folderVars>>

\* line 120: db_fasta.exists() can be false only when the downloaded file
\* has gone from the folder by the time the run looks for it
ExternalRemoveFasta ==
    /\ pc = "decide"
    /\ fastaExists
    /\ fastaExists' = FALSE
    /\ UNCHANGED <<metaFile, blastdb, pc, metad, uploaded_to_server_on, url, updated_on,
                   today, modified_time, decision, made, raised, log, runs, fileAtStart,
                   last, outcome, callVars, folderVars>>

\* lines 118, 130-131: needs_updating is false
DecideUpToDate ==
    /\ pc = "decide"
    /\ ~needs_updating(uploaded_to_server_on, modified_time)
    /\ decision' = "UP_TO_DATE"
    /\ log' = log \cup {"debug", "info"}
    /\ outcome' = "up_to_date"
    /\ pc' = "idle"
    /\ UNCHANGED <<metaFile, fastaExists, blastdb, metad, uploaded_to_server_on, url,
                   updated_on, today, modified_time, made, raised, runs, fileAtStart,
                   last, callVars, folderVars>>

\* lines 118-121: needs_updating is true, db_fasta exists, make_db is entered
DecideRebuild ==
    /\ pc = "decide"
    /\ needs_updating(uploaded_to_server_on, modified_time)
    /\ fastaExists
    /\ decision' = "NEEDS_REBUILD"
    /\ made' = TRUE
    /\ log' = log \cup {"debug", "info"}
    /\ pc' = "make_db"
    /\ UNCHANGED <<metaFile, fastaExists, blastdb, metad, uploaded_to_server_on, url,
                   updated_on, today, modified_time, raised, runs, fileAtStart, last,
                   outcome, callVars, folderVars>>

\* DecideMissing without the exists() test: make_db is entered all the same
DecideMissing_proceeds ==
    /\ pc = "decide"
    /\ needs_updating(uploaded_to_server_on, modified_time)
    /\ ~fastaExists
    /\ decision' = "NEEDS_REBUILD"
    /\ made' = TRUE
    /\ log' = log \cup {"debug", "info"}
    /\ pc' = "make_db"
    /\ UNCHANGED <<metaFile, fastaExists, blastdb, metad, uploaded_to_server_on, url,
                   updated_on, today, modified_time, raised, runs, fileAtStart, last,
                   outcome, callVars, folderVars>>

\* lines 118-120, 125-128: needs_updating is true, db_fasta is missing
DecideMissing ==
    /\ pc = "decide"
    /\ needs_updating(uploaded_to_server_on, modified_time)
    /\ ~fastaExists
    /\ decision' = "NEEDS_REBUILD"
    /\ log' = log \cup {"debug", "error"}
    /\ outcome' = "missing"
    /\ pc' = "idle"
    /\ UNCHANGED <<metaFile, fastaExists, blastdb, metad, uploaded_to_server_on, url,
                   updated_on, today, modified_time, made, raised, runs, fileAtStart,
                   last, callVars, folderVars>>

\* MakeDbOk storing the run date as uploaded_to_server_on
MakeDbOk_rundate ==
    /\ pc = "make_db"
    /\ blastdb' = TRUE
    /\ metad' = update_info(update_info(metad, "updated_on", updated_on),
                            "uploaded_to_server_on", updated_on)
    /\ metaFile' = update_metadata_file(metad')
    /\ outcome' = "rebuilt"
    /\ pc' = "idle"
    /\ UNCHANGED <<fastaExists, uploaded_to_server_on, url, updated_on, today,
                   modified_time, decision, made, raised, log, runs, fileAtStart, last,
                   callVars, folderVars>>

\* MakeDbOk without the update of uploaded_to_server_on
MakeDbOk_noupload ==
    /\ pc = "make_db"
    /\ blastdb' = TRUE
    /\ metad' = update_info(metad, "updated_on", updated_on)
    /\ metaFile' = update_metadata_file(metad')
    /\ outcome' = "rebuilt"
    /\ pc' = "idle"
    /\ UNCHANGED <<fastaExists, uploaded_to_server_on, url, updated_on, today,
                   modified_time, decision, made, raised, log, runs, fileAtStart, last,
                   callVars, folderVars>>

\* lines 82-86, 122-124: makeblastdb exits 0, the artifacts are copied, the
\* record is updated and written
MakeDbOk ==
    /\ pc = "make_db"
    /\ blastdb' = TRUE
    /\ metad' = update_info(update_info(metad, "updated_on", updated_on),
                            "uploaded_to_server_on", strftime(modified_time))
    /\ metaFile' = update_metadata_file(metad')
    /\ outcome' = "rebuilt"
    /\ pc' = "idle"
    /\ UNCHANGED <<fastaExists, uploaded_to_server_on, url, updated_on, today,
                   modified_time, decision, made, raised, log, runs, fileAtStart, last,
                   callVars, folderVars>>

\* MakeDbFail without the raise: the failure is logged and the run goes on to
\* update and write the record
MakeDbFail_swallowed ==
    /\ pc = "make_db"
    /\ log' = log \cup {"error"}
    /\ metad' = update_info(update_info(metad, "updated_on", updated_on),
                            "uploaded_to_server_on", strftime(modified_time))
    /\ metaFile' = update_metadata_file(metad')
    /\ outcome' = "tool_failed"
    /\ pc' = "idle"
    /\ UNCHANGED <<fastaExists, blastdb, uploaded_to_server_on, url, updated_on, today,
                   modified_time, decision, made, raised, runs, fileAtStart, last,
                   callVars, folderVars>>

\* lines 87-89: makeblastdb exits non-zero; logged, re-raised, caught nowhere
MakeDbFail ==
    /\ pc = "make_db"
    /\ log' = log \cup {"error"}
    /\ raised' = "CalledProcessError"
    /\ outcome' = "tool_failed"
    /\ pc' = "idle"
    /\ UNCHANGED <<metaFile, fastaExists, blastdb, metad, uploaded_to_server_on, url,
                   updated_on, today, modified_time, decision, made, runs, fileAtStart,
                   last, callVars, folderVars>>

Next ==
    \/ StartRun
    \/ ProbeOk
    \/ ProbeFail
    \/ FetchOk
    \/ FetchFail
    \/ ExternalRemoveFasta
    \/ DecideUpToDate
    \/ DecideRebuild
    \/ DecideMissing
    \/ MakeDbOk
    \/ MakeDbFail

Spec == Init /\ [][Next]_vars

\* ---- properties of the runs ----

\* the uploaded_to_server_on a run reads from a metadata file (the default
\* when the file is absent)
StoredDate(file) == IF file = NoFile THEN EpochDate ELSE file[1]["uploaded_to_server_on"]

\* C2: when the rebuild was triggered and the indexing tool exited non-zero,
\* CalledProcessError leaves the run, the run is over and the metadata file
\* is as the run found it; the file differs from what the run found only
\* after make_db was invoked and returned.
C2_ToolFailureKeepsMetadata ==
    /\ outcome = "tool_failed" =>
          /\ made
          /\ raised = "CalledProcessError"
          /\ pc = "idle"
          /\ metaFile = fileAtStart
    /\ metaFile # fileAtStart =>
          /\ made
          /\ raised = "none"
          /\ outcome = "rebuilt"

C2_Witness ==
    /\ outcome = "tool_failed"
    /\ raised = "CalledProcessError"
    /\ fileAtStart # NoFile
    /\ modified_time.date > StoredDate(fileAtStart)

\* C3: in a run whose observed date is equal to or earlier than the stored
\* date, make_db is not invoked, the metadata file stays as found, and once
\* the decision is taken it is UP_TO_DATE, logged at level info, with no
\* error record and no exception.
C3_UpToDateDoesNothing ==
    (modified_time # NoDateTime /\ modified_time.date <= StoredDate(fileAtStart)) =>
        /\ ~made
        /\ metaFile = fileAtStart
        /\ "error" \notin log
        /\ decision # "NEEDS_REBUILD"
        /\ decision = "UP_TO_DATE" => ("info" \in log /\ raised = "none" /\ pc = "idle")
        /\ outcome \in {"running", "up_to_date", "fetch_failed"}

C3_Witness ==
    /\ decision = "UP_TO_DATE"
    /\ fileAtStart # NoFile
    /\ modified_time.date < StoredDate(fileAtStart)
    /\ modified_time.time > 0

\* C4: in a run whose observed date is later than the stored date the
\* decision is NEEDS_REBUILD, and when make_db was invoked and the run
\* returned, the metadata file holds the record the run loaded with
\* uploaded_to_server_on = observed date and updated_on = run date, host and
\* filename as loaded.
C4_RebuildPersistsObservedDate ==
    /\ (decision # "none" /\ modified_time.date > StoredDate(fileAtStart)) =>
          decision = "NEEDS_REBUILD"
    /\ (modified_time.date > StoredDate(fileAtStart) /\ made /\ pc = "idle"
        /\ raised = "none") =>
          /\ metaFile # NoFile
          /\ metaFile[1] =
                [LoadMetad(fileAtStart, today) EXCEPT
                    !["uploaded_to_server_on"] = modified_time.date,
                    !["updated_on"] = today]

C4_Witness ==
    /\ outcome = "rebuilt"
    /\ fileAtStart # NoFile
    /\ modified_time.date > StoredDate(fileAtStart)
    /\ modified_time.date # today
    /\ metaFile[1]["uploaded_to_server_on"] = modified_time.date
    /\ metaFile[1]["filename"] # DefaultFilename

\* C5: no step of any run lowers the persisted uploaded_to_server_on, and a
\* metadata file once written stays.
C5_UploadedNeverDecreases ==
    [][/\ StoredDate(metaFile') >= StoredDate(metaFile)
       /\ metaFile # NoFile => metaFile' # NoFile]_vars

C5_Witness ==
    /\ runs >= 2
    /\ last.outcome = "rebuilt"
    /\ outcome = "up_to_date"
    /\ modified_time.date < last.observed
    /\ StoredDate(metaFile) = last.observed

\* C6 as claimed: when the run before took its decision on the same remote
\* date, whether or not it rebuilt, this run invokes no make_db and leaves
\* the metadata file as it found it.
C6_SecondRunIdle_AsClaimed ==
    (runs >= 2 /\ last.outcome \in {"up_to_date", "rebuilt", "tool_failed", "missing"}
     /\ modified_time.date = last.observed) =>
        (~made /\ metaFile = fileAtStart)

\* C6 amended: the same, for a run before that ended UP_TO_DATE or with a
\* successful rebuild.
C6_SecondRunIdle ==
    (runs >= 2 /\ last.outcome \in {"up_to_date", "rebuilt"}
     /\ modified_time.date = last.observed) =>
        (~made /\ metaFile = fileAtStart /\ decision # "NEEDS_REBUILD")

C6_Witness ==
    /\ runs >= 2
    /\ last.outcome = "rebuilt"
    /\ modified_time.date = last.observed
    /\ decision = "UP_TO_DATE"
    /\ pc = "idle"

\* C9: when needs_updating is true and db_fasta is missing, make_db is not
\* invoked, the error is logged and no exception leaves the run, the step
\* changes neither the metadata file nor any file of the folder, and a next
\* run that observes the same remote date decides NEEDS_REBUILD again.
C9_MissingFileHandled ==
    /\ [](outcome = "missing" =>
            /\ ~made
            /\ raised = "none"
            /\ "error" \in log
            /\ pc = "idle"
            /\ metaFile = fileAtStart)
    /\ []((last.outcome = "missing" /\ decision # "none"
           /\ modified_time.date = last.observed) => decision = "NEEDS_REBUILD")
    /\ [][(pc = "decide" /\ ~fastaExists /\ decision' = "NEEDS_REBUILD") =>
            /\ pc' = "idle"
            /\ outcome' = "missing"
            /\ UNCHANGED <<metaFile, fastaExists, blastdb>>]_vars

C9_Witness ==
    /\ last.outcome = "missing"
    /\ modified_time.date = last.observed
    /\ decision = "NEEDS_REBUILD"
    /\ blastdb

\* ---- DBMetadata.needs_updating called on a constructed record ----
InitNeeds ==
    /\ metaFile \in InitFiles
    /\ fileAtStart = metaFile
    /\ metad = LoadMetad(metaFile, 0)
    /\ uploaded_to_server_on = strptime(metad["uploaded_to_server_on"])
    /\ modified_time \in DateTimes
    /\ url = <<>>
    /\ pc = "constructed"
    /\ RunHistoryIdle
    /\ CallVarsIdle
    /\ FolderVarsIdle

\* lines 47-53
CallNeedsUpdating ==
    /\ pc = "constructed"
    /\ result' = needs_updating(uploaded_to_server_on, modified_time)
    /\ log' = log \cup {"debug"}
    /\ pc' = "returned"
    /\ UNCHANGED <<metaFile, fastaExists, blastdb, metad, uploaded_to_server_on, url,
                   updated_on, today, modified_time, decision, made, raised, runs,
                   fileAtStart, last, outcome, calls, folderVars>>

NextNeeds == CallNeedsUpdating

SpecNeeds == InitNeeds /\ [][NextNeeds]_vars

\* C1: needs_updating returns true exactly when the date of the observed
\* timestamp is later than the stored uploaded_to_server_on date: false for
\* equal and for earlier dates, whatever the time of day.
C1_NeedsUpdatingIffLaterDate ==
    pc = "returned" =>
        /\ result = (modified_time.date > StoredDate(metaFile))
        /\ modified_time.date = StoredDate(metaFile) => ~result
        /\ modified_time.date < StoredDate(metaFile) => ~result

C1_Witness ==
    /\ pc = "returned"
    /\ metaFile # NoFile
    /\ modified_time.date = StoredDate(metaFile)
    /\ modified_time.time > 0
    /\ ~result

\* ---- url construction of download_cdc_db over configured names ----
\* texts a configured filename is made of: "/", "trimmed.tfa", and texts
\* that hold neither "/" nor a part of "trimmed.tfa"; only "all" ends in "all"
NameTokens == {Slash, Trimmed, "all", "my", ".gz", "pub"}
Filenames == UNION {[1..n -> NameTokens] : n \in 1..MaxNameLen}
Hosts == {DefaultHost, <<"my", Trimmed>>}

InitUrl ==
    /\ \E h \in Hosts, f \in Filenames :
          metaFile = <<[DefaultMetad(0) EXCEPT !["host"] = h, !["filename"] = f]>>
    /\ fileAtStart = metaFile
    /\ metad = LoadMetad(metaFile, 0)
    /\ uploaded_to_server_on = strptime(metad["uploaded_to_server_on"])
    /\ modified_time = NoDateTime
    /\ url = <<>>
    /\ pc = "constructed"
    /\ RunHistoryIdle
    /\ CallVarsIdle
    /\ FolderVarsIdle

\* lines 108-111
MakeUrl ==
    /\ pc = "constructed"
    /\ url' = BuildUrl(metad)
    /\ pc' = "url"
    /\ UNCHANGED <<metaFile, fastaExists, blastdb, metad, uploaded_to_server_on,
                   updated_on, today, modified_time, decision, made, raised, log, runs,
                   fileAtStart, last, outcome, callVars, folderVars>>

NextUrl == MakeUrl

SpecUrl == InitUrl /\ [][NextUrl]_vars

\* C7 as claimed: a filename that ends in trimmed.tfa gives a URL that ends
\* in alltrimmed.tfa, and any other filename gives "https://" + host + filename.
C7_SuffixRewrite_AsClaimed ==
    pc = "url" =>
        /\ EndsWith(metad["filename"], <<Trimmed>>) => EndsWith(url, <<"all", Trimmed>>)
        /\ ~EndsWith(metad["filename"], <<Trimmed>>) =>
              url = Https \o metad["host"] \o metad["filename"]

\* C7 amended: the rewrite is made exactly when the name after the last "/"
\* is trimmed.tfa in full (the filename ends in "/trimmed.tfa"): then every
\* trimmed.tfa of the URL becomes alltrimmed.tfa and the URL ends in
\* "/alltrimmed.tfa"; any other filename, also one that ends in trimmed.tfa
\* after other characters, gives "https://" + host + filename.
C7_LastComponentRewrite ==
    pc = "url" =>
        LET u == Https \o metad["host"] \o metad["filename"]
        IN  /\ EndsWith(metad["filename"], <<Slash, Trimmed>>) =>
                  /\ url = Replace(u)
                  /\ EndsWith(url, <<Slash, "all", Trimmed>>)
            /\ ~EndsWith(metad["filename"], <<Slash, Trimmed>>) => url = u

C7_Witness ==
    /\ pc = "url"
    /\ metad["filename"] = <<Slash, "my", Trimmed>>
    /\ url = Https \o metad["host"] \o metad["filename"]

\* ---- DBMetadata.update_info and update_metadata_file called directly ----
FourFields == {"updated_on", "host", "filename", "uploaded_to_server_on"}
Keys == FourFields \cup {"checksum"}
ValuesOf(key) ==
    IF key = "host" THEN Hosts
    ELSE IF key = "filename" THEN {DefaultFilename, <<Slash, "pub", Slash, Trimmed>>}
    ELSE Dates

InitInfo ==
    /\ metaFile \in InitFiles
    /\ fileAtStart = metaFile
    /\ metad = LoadMetad(metaFile, 0)
    /\ uploaded_to_server_on = strptime(metad["uploaded_to_server_on"])
    /\ modified_time = NoDateTime
    /\ url = <<>>
    /\ pc = "constructed"
    /\ RunHistoryIdle
    /\ CallVarsIdle
    /\ FolderVarsIdle

\* lines 55-60
CallUpdateInfo ==
    /\ pc = "constructed"
    /\ calls < MaxCalls
    /\ \E key \in Keys : \E value \in ValuesOf(key) :
          metad' = update_info(metad, key, value)
    /\ calls' = calls + 1
    /\ UNCHANGED <<metaFile, fastaExists, blastdb, pc, uploaded_to_server_on, url,
                   updated_on, today, modified_time, decision, made, raised, log, runs,
                   fileAtStart, last, outcome, result, folderVars>>

\* lines 62-64
CallUpdateMetadataFile ==
    /\ pc = "constructed"
    /\ metaFile' = update_metadata_file(metad)
    /\ UNCHANGED <<fastaExists, blastdb, pc, metad, uploaded_to_server_on, url,
                   updated_on, today, modified_time, decision, made, raised, log, runs,
                   fileAtStart, last, outcome, callVars, folderVars>>

NextInfo == CallUpdateInfo \/ CallUpdateMetadataFile

SpecInfo == InitInfo /\ [][NextInfo]_vars

\* C8: after any sequence of update_info calls the record, and the file
\* written from it, hold exactly the four fields; a call with another key
\* leaves the record as it was.
C8_UnknownKeyIgnored ==
    /\ [](DOMAIN metad = FourFields)
    /\ [](metaFile # NoFile => DOMAIN metaFile[1] = FourFields)
    /\ [][raised' = "none"]_vars

\* ---- get_db_folder ----
PackageDb == "package/db"
HomeDb == "home/emm_db"
EnvFolders == {"/data/emm_db", "/srv/emm_db", "/tmp/emm_db"}
ProbeOutcomes == {"ok", "PermissionError", "FileNotFoundError"}
HomeStates == {"absent", "exists", "unwritable"}

InitFolder ==
    /\ environ \in {<<>>} \cup {<<f>> : f \in EnvFolders}
    /\ probe \in ProbeOutcomes
    /\ home_state \in HomeStates
    /\ db_folder = <<>>
    /\ pc = "get"
    /\ metaFile = NoFile
    /\ fileAtStart = NoFile
    /\ metad = DefaultMetad(0)
    /\ uploaded_to_server_on = strptime(EpochDate)
    /\ modified_time = NoDateTime
    /\ url = <<>>
    /\ RunHistoryIdle
    /\ CallVarsIdle

\* lines 140-142: os.environ.get gives the str of the variable when it is
\* set, the Path default when it is not
GetEnviron ==
    /\ pc = "get"
    /\ db_folder' = IF environ # <<>> THEN <<[type |-> "str", path |-> environ[1]]>>
                    ELSE <<[type |-> "Path", path |-> PackageDb]>>
    /\ pc' = "join"
    /\ UNCHANGED <<metaFile, fastaExists, blastdb, metad, uploaded_to_server_on, url,
                   updated_on, today, modified_time, decision, made, runs, fileAtStart,
                   last, outcome, callVars, environ, probe, home_state, raised, log>>

\* line 144: db_folder / "test.txt" on a str raises TypeError, which the
\* except PermissionError of line 148 does not catch
JoinStr ==
    /\ pc = "join"
    /\ db_folder[1].type = "str"
    /\ raised' = "TypeError"
    /\ pc' = "raised"
    /\ UNCHANGED <<metaFile, fastaExists, blastdb, metad, uploaded_to_server_on, url,
                   updated_on, today, modified_time, decision, made, runs, fileAtStart,
                   last, outcome, callVars, environ, probe, home_state, db_folder, log>>

\* lines 144-147, 156: the marker file is written and removed
ProbeWritable ==
    /\ pc = "join"
    /\ db_folder[1].type = "Path"
    /\ probe = "ok"
    /\ pc' = "returned"
    /\ UNCHANGED <<metaFile, fastaExists, blastdb, metad, uploaded_to_server_on, url,
                   updated_on, today, modified_time, decision, made, runs, fileAtStart,
                   last, outcome, callVars, environ, probe, home_state, db_folder, raised, log>>

\* lines 145, 148: open raises PermissionError
ProbeDenied ==
    /\ pc = "join"
    /\ db_folder[1].type = "Path"
    /\ probe = "PermissionError"
    /\ pc' = "fallback"
    /\ UNCHANGED <<metaFile, fastaExists, blastdb, metad, uploaded_to_server_on, url,
                   updated_on, today, modified_time, decision, made, runs, fileAtStart,
                   last, outcome, callVars, environ, probe, home_state, db_folder, raised, log>>

\* line 145: open raises another OSError (the folder does not exist)
ProbeOtherError ==
    /\ pc = "join"
    /\ db_folder[1].type = "Path"
    /\ probe = "FileNotFoundError"
    /\ raised' = "FileNotFoundError"
    /\ pc' = "raised"
    /\ UNCHANGED <<metaFile, fastaExists, blastdb, metad, uploaded_to_server_on, url,
                   updated_on, today, modified_time, decision, made, runs, fileAtStart,
                   last, outcome, callVars, environ, probe, home_state, db_folder, log>>

\* lines 149-156: ~/emm_db, mkdir, FileExistsError passed over, any other
\* exception logged
Fallback ==
    /\ pc = "fallback"
    /\ db_folder' = <<[type |-> "Path", path |-> HomeDb]>>
    /\ home_state' = IF home_state = "absent" THEN "exists" ELSE home_state
    /\ log' = IF home_state = "unwritable" THEN log \cup {"error"} ELSE log
    /\ pc' = "returned"
    /\ UNCHANGED <<metaFile, fastaExists, blastdb, metad, uploaded_to_server_on, url,
                   updated_on, today, modified_time, decision, made, runs, fileAtStart,
                   last, outcome, callVars, environ, probe, raised>>

NextFolder ==
    \/ GetEnviron
    \/ JoinStr
    \/ ProbeWritable
    \/ ProbeDenied
    \/ ProbeOtherError
    \/ Fallback

SpecFolder == InitFolder /\ [][NextFolder]_vars

\* C10: whether EMM_DB is set or not, when the marker probe succeeds or
\* fails with a permission failure, get_db_folder returns and raises
\* nothing: the probed folder (EMM_DB when set, else the package folder)
\* when it is writable, the home subfolder, present afterwards, when the
\* probe met a permission failure.
C10_FolderResolved ==
    (pc \in {"returned", "raised"} /\ probe \in {"ok", "PermissionError"}) =>
        /\ pc = "returned"
        /\ raised = "none"
        /\ probe = "ok" =>
              db_folder[1].path = (IF environ # <<>> THEN environ[1] ELSE PackageDb)
        /\ probe = "PermissionError" =>
              (db_folder[1].path = HomeDb /\ home_state # "absent")

====
